---- MODULE Spec2Model ----
(***************************************************************************)
(* Model of fscoverage.py, a Streamlit script.  Streamlit re-executes the  *)
(* whole script on every user interaction; st.session_state and the       *)
(* widgets' values survive between executions.  One action of the model   *)
(* is one user interaction followed by the script execution it triggers   *)
(* (and the second execution that st.rerun() asks for).                   *)
(*                                                                         *)
(* Cell values are tagged: [num |-> n] a number, [str |-> s] a string,     *)
(* [ts |-> m] a datetime (minutes since the epoch of the model), [hms |->  *)
(* <<h, m, s>>] a string formatted by strftime("%H:%M:%S"), and NaN for a  *)
(* missing value (pandas' NaN / None).  Coordinates are integers in units  *)
(* of 10^-11 degree, so that round(10) has something to round.            *)
(***************************************************************************)
EXTENDS Integers, Sequences, FiniteSets, TLC

VARIABLES
    geo_file,        \* st.file_uploader("Georadar CSV"): [present, data]
    cov_file,        \* st.file_uploader("Coverage CSV"): [present, data]
    session_state,   \* st.session_state: [keys, df, geo_df, cov_df, edited_df]
    edited,          \* what st.data_editor returned in the last execution
    df_out,          \* the table the last export wrote to the Excel buffer
    _template_cols,   \* load_excel_template_columns(EXCEL_TEMPLATE_PATH)
    event,           \* the user interaction the last execution handled
    nops             \* interactions since the upload was processed (bounded)

vars == <<geo_file, cov_file, session_state, edited, df_out, _template_cols, event, nops>>

--------------------------------------------------------------------------
(* Bounds of the model *)

MaxGeoRows == 2
MaxCovRows == 2
MaxRows == 3
MaxOps == 4
MaxSchemaLen == 3
DbmMargin == 4

--------------------------------------------------------------------------
(* Column names *)

Latitud == "Latitud"
Longitud == "Longitud"
RSSI == "RSSI / RSCP (dBm)"
LatFL == "Latitude - Functional Location"
LonFL == "Longitude - Functional Location"
ServiceAccount == "Service Account - Work Order"
BillingAccount == "Billing Account - Work Order"
WorkOrderType == "Work Order Type - Work Order"
ParentFL == "Name - Parent Functional Location"
ChildFL == "Name - Child Functional Location"
PromisedFrom == "Promised window From - Work Order"
TimeFrom == "Time window From - Work Order"
EndTime == "EndTime - Bookable Resource Booking"

full ==
    << PromisedFrom,
       "Promised window To - Work Order",
       "StartTime - Bookable Resource Booking",
       EndTime >>

time_only ==
    << TimeFrom,
       "Time window To - Work Order" >>

--------------------------------------------------------------------------
(* Cell values *)

NaN == [nan |-> TRUE]
Num(n) == [num |-> n]
Str(s) == [str |-> s]
Ts(m) == [ts |-> m]

isna(v) == "nan" \in DOMAIN v

IsStr(v) == "str" \in DOMAIN v

\* Python truthiness of a cell value used in a condition (`if par`, `if val`)
Truthy(v) ==
    IF isna(v) THEN FALSE
    ELSE IF IsStr(v) THEN v.str # ""
    ELSE TRUE

--------------------------------------------------------------------------
(* DataFrames: an ordered list of column names and an ordered list of rows, *)
(* each row a function from the column names to cell values.               *)

Range(s) == {s[i] : i \in DOMAIN s}

EmptyDF == [cols |-> <<>>, rows |-> <<>>]

\* df[c] = vals : overwrite column c in place, or append it as the last column
SetCol(t, c, vals) ==
    [cols |-> IF c \in Range(t.cols) THEN t.cols ELSE Append(t.cols, c),
     rows |-> [i \in 1..Len(t.rows) |->
                 [k \in Range(t.cols) \cup {c} |->
                     IF k = c THEN vals[i] ELSE t.rows[i][k]]]]

\* df[c] = v with a scalar v
SetColScalar(t, c, v) == SetCol(t, c, [i \in 1..Len(t.rows) |-> v])

\* df[cs] : the columns cs, in the order of cs
Select(t, cs) ==
    [cols |-> cs,
     rows |-> [i \in 1..Len(t.rows) |-> [k \in Range(cs) |-> t.rows[i][k]]]]

\* df.rename(columns={old1: new1, old2: new2})
RenameCol(c, old1, new1, old2, new2) ==
    IF c = old1 THEN new1 ELSE IF c = old2 THEN new2 ELSE c

Rename(t, old1, new1, old2, new2) ==
    LET ren(c) == RenameCol(c, old1, new1, old2, new2)
        back(k) == CHOOSE c \in Range(t.cols) : ren(c) = k
    IN [cols |-> [j \in 1..Len(t.cols) |-> ren(t.cols[j])],
        rows |-> [i \in 1..Len(t.rows) |->
                    [k \in {ren(c) : c \in Range(t.cols)} |-> t.rows[i][back(k)]]]]

\* df.drop(columns=S)
Drop(t, S) ==
    LET keep == SelectSeq(t.cols, LAMBDA c : c \notin S)
    IN Select(t, keep)

Column(t, c) == [i \in 1..Len(t.rows) |-> t.rows[i][c]]

--------------------------------------------------------------------------
(* Configuration: load_config() and the Excel template, read at start-up. *)

PROTECTED_COLUMNS == {LatFL}

DROPDOWN_VALUES == [c \in {WorkOrderType} |-> <<Str("Installation"), Str("Repair")>>]

PARENT_CHILD_MAP ==
    [p \in {Str("P1"), Str("P2")} |->
        IF p = Str("P1") THEN <<Str("C1"), Str("C2")>> ELSE <<Str("C3")>>]

\* the template of the deployment the session specification models
TemplateColumns ==
    <<WorkOrderType, LatFL, ParentFL, ChildFL, PromisedFrom, TimeFrom, EndTime>>

--------------------------------------------------------------------------
(* Projection onto the template's columns (lines 143-148 and 216-220) *)

RECURSIVE AddMissing_overwrite(_, _)
AddMissing_overwrite(t, cs) ==
    IF cs = <<>> THEN t
    ELSE AddMissing_overwrite(SetColScalar(t, Head(cs), Str("")), Tail(cs))

\* for c in _template_cols: if c not in disp.columns: disp[c] = ""
RECURSIVE AddMissing(_, _)
AddMissing(t, cs) ==
    IF cs = <<>> THEN t
    ELSE AddMissing(IF Head(cs) \notin Range(t.cols)
                       THEN SetColScalar(t, Head(cs), Str(""))
                       ELSE t,
                    Tail(cs))

Project_no_select(t, schema) == AddMissing(t, schema)

\* disp = disp[_template_cols]
Project(t, schema) == Select(AddMissing(t, schema), schema)

--------------------------------------------------------------------------
(* The join of the installation points with the coverage samples *)

\* numpy's round(10) of a coordinate given in units of 10^-11: to the nearest
\* multiple of 10 units, a tie going to the even multiple
round10(x) ==
    LET q == x \div 10
        r == x % 10
    IN IF r < 5 THEN 10 * q
       ELSE IF r > 5 THEN 10 * (q + 1)
       ELSE IF q % 2 = 0 THEN 10 * q ELSE 10 * (q + 1)

Bin(v) == Num(round10(v.num))

BinKey_lat_only(row, lat, lon) == <<Bin(row[lat]), Num(0)>>

\* the (LatBin, LonBin) key of a row
BinKey(row, lat, lon) == <<Bin(row[lat]), Bin(row[lon])>>

LastIndex_smallest(S) == CHOOSE i \in S : \A j \in S : i <= j

\* line 117: of the rows with one key, to_dict() keeps the last
LastIndex(S) == CHOOSE i \in S : \A j \in S : j <= i

cov_map_first(cov_raw) ==
    LET key(i) == BinKey(cov_raw.rows[i], Latitud, Longitud)
        n == Len(cov_raw.rows)
    IN [k \in {key(i) : i \in 1..n} |->
          cov_raw.rows[CHOOSE i \in 1..n : key(i) = k /\ \A j \in 1..(i - 1) : key(j) # k][RSSI]]

\* cov_raw.set_index(["LatBin", "LonBin"])["RSSI / RSCP (dBm)"].to_dict():
\* a later row with the same key replaces the earlier entry
cov_map(cov_raw) ==
    LET key(i) == BinKey(cov_raw.rows[i], Latitud, Longitud)
        n == Len(cov_raw.rows)
    IN [k \in {key(i) : i \in 1..n} |->
          cov_raw.rows[LastIndex({i \in 1..n : key(i) = k})][RSSI]]

\* cov_map.get((r.LatBin, r.LonBin)) : None (NaN in the column) without the key
Lookup(m, k) == IF k \in DOMAIN m THEN m[k] ELSE NaN

classify_open(v) ==
    IF isna(v) THEN NaN
    ELSE IF -70 < v.num /\ v.num <= -10 THEN Str("YES")
    ELSE IF -200 <= v.num /\ v.num < -70 THEN Str("NO")
    ELSE NaN

classify(v) ==
    IF isna(v) THEN NaN
    ELSE IF -70 <= v.num /\ v.num <= -10 THEN Str("YES")
    ELSE IF -200 <= v.num /\ v.num < -70 THEN Str("NO")
    ELSE NaN

\* lines 113-130: gdf with the columns dBm and Gateway added
JoinClassify(gdf, cov_raw) ==
    LET n == Len(gdf.rows)
        g1 == SetCol(gdf, "LatBin", [i \in 1..n |-> BinKey(gdf.rows[i], LatFL, LonFL)[1]])
        g2 == SetCol(g1, "LonBin", [i \in 1..n |-> BinKey(gdf.rows[i], LatFL, LonFL)[2]])
        m == cov_map(cov_raw)
        g3 == SetCol(g2, "dBm",
                     [i \in 1..n |-> Lookup(m, <<g2.rows[i]["LatBin"], g2.rows[i]["LonBin"]>>)])
        g4 == SetCol(g3, "Gateway", [i \in 1..n |-> classify(g3.rows[i]["dBm"])])
    IN Drop(g4, {"LatBin", "LonBin"})

--------------------------------------------------------------------------
(* The script, top to bottom *)

NoFile == [present |-> FALSE, data |-> EmptyDF]
File(t) == [present |-> TRUE, data |-> t]

\* lines 62-63: the session of a browser tab that has run the script once
FreshSession ==
    [keys |-> {"df"}, df |-> EmptyDF, geo_df |-> EmptyDF, cov_df |-> EmptyDF,
     edited_df |-> EmptyDF]

GeoError == "Georadar debe tener columnas Latitud y Longitud"
CovError == "Coverage debe tener Latitud, Longitud, RSSI / RSCP (dBm)"
Processed == "Datos procesados"
UploadBoth == "Sube ambos CSV para continuar"

\* lines 93-101: the renamed table with its three constant columns
Prepare(geo_raw) ==
    LET g0 == Rename(geo_raw, Latitud, LatFL, Longitud, LonFL)
        g1 == SetColScalar(g0, ServiceAccount, Str("ANER_Senegal"))
        g2 == SetColScalar(g1, BillingAccount, Str("ANER_Senegal"))
    IN SetColScalar(g2, WorkOrderType, Str("Installation"))

Process_reprocess(ss, geo, cov) ==
    IF ~(geo.present /\ cov.present)
    THEN [ss |-> ss, stop |-> FALSE, msg |-> ""]
    ELSE IF ~({Latitud, Longitud} \subseteq Range(geo.data.cols))
    THEN [ss |-> ss, stop |-> TRUE, msg |-> GeoError]
    ELSE LET gdf == Prepare(geo.data)
             ss1 == [ss EXCEPT !.geo_df = geo.data, !.df = gdf,
                               !.keys = @ \cup {"geo_df", "df"}]
         IN IF ~({Latitud, Longitud, RSSI} \subseteq Range(cov.data.cols))
            THEN [ss |-> ss1, stop |-> TRUE, msg |-> CovError]
            ELSE [ss |-> [ss1 EXCEPT !.cov_df = cov.data,
                                     !.df = JoinClassify(gdf, cov.data),
                                     !.keys = @ \cup {"cov_df", "processed"}],
                  stop |-> FALSE, msg |-> Processed]

\* lines 85-133: [ss: the session afterwards, stop: st.stop() was called, msg]
Process(ss, geo, cov) ==
    IF ~(geo.present /\ cov.present /\ "processed" \notin ss.keys)
    THEN [ss |-> ss, stop |-> FALSE, msg |-> ""]
    ELSE IF ~({Latitud, Longitud} \subseteq Range(geo.data.cols))
    THEN [ss |-> ss, stop |-> TRUE, msg |-> GeoError]
    ELSE LET gdf == Prepare(geo.data)
             ss1 == [ss EXCEPT !.geo_df = geo.data, !.df = gdf,
                               !.keys = @ \cup {"geo_df", "df"}]
         IN IF ~({Latitud, Longitud, RSSI} \subseteq Range(cov.data.cols))
            THEN [ss |-> ss1, stop |-> TRUE, msg |-> CovError]
            ELSE [ss |-> [ss1 EXCEPT !.cov_df = cov.data,
                                     !.df = JoinClassify(gdf, cov.data),
                                     !.keys = @ \cup {"cov_df", "processed"}],
                  stop |-> FALSE, msg |-> Processed]

Seed_unprojected(ss, schema) ==
    IF "edited_df" \notin ss.keys
    THEN [ss EXCEPT !.edited_df = ss.df, !.keys = @ \cup {"edited_df"}]
    ELSE ss

\* lines 142-150: edited_df is set from the projected join output once
Seed(ss, schema) ==
    IF "edited_df" \notin ss.keys
    THEN [ss EXCEPT !.edited_df = Project(ss.df, schema), !.keys = @ \cup {"edited_df"}]
    ELSE ss

\* lines 85-150: the script down to the data editor
TopOfScript(ss, geo, cov, schema) ==
    LET p == Process(ss, geo, cov)
    IN IF p.stop THEN p
       ELSE IF "processed" \notin p.ss.keys
       THEN [ss |-> p.ss, stop |-> TRUE, msg |-> UploadBoth]
       ELSE [ss |-> Seed(p.ss, schema), stop |-> FALSE, msg |-> p.msg]

\* lines 152-154: the editor keeps its pending edits while the table it is
\* given is the one it was given before, and starts afresh on another table
data_editor(old_ss, new_ss, old_edited) ==
    IF "edited_df" \in old_ss.keys /\ new_ss.edited_df = old_ss.edited_df
    THEN old_edited
    ELSE new_ss.edited_df

\* an execution of the script with no button pressed
Execute(geo, cov, op) ==
    LET r == TopOfScript(session_state, geo, cov, _template_cols)
    IN /\ session_state' = r.ss
       /\ edited' = IF r.stop THEN edited ELSE data_editor(session_state, r.ss, edited)
       /\ event' = [op |-> op, msg |-> r.msg]
       /\ UNCHANGED <<df_out, _template_cols>>

Rerun ==
    /\ Execute(geo_file, cov_file, "run")
    /\ UNCHANGED <<geo_file, cov_file, nops>>

--------------------------------------------------------------------------
(* Rows of the uploaded tables *)

GeoRow(pt) == [c \in {Latitud, Longitud} |-> IF c = Latitud THEN Num(pt[1]) ELSE Num(pt[2])]

CovRow(pt, v) ==
    [c \in {Latitud, Longitud, RSSI} |->
        IF c = Latitud THEN Num(pt[1]) ELSE IF c = Longitud THEN Num(pt[2]) ELSE v]

--------------------------------------------------------------------------
(* The buttons and widgets below the data editor *)

editable_cols_all(ed) == ed.cols

\* line 162
editable_cols(ed) == SelectSeq(ed.cols, LAMBDA c : c \notin PROTECTED_COLUMNS)

\* line 166: edited[parent].dropna().unique(), in row order (repeats kept:
\* only its first element is read)
parents(ed) == SelectSeq(Column(ed, ParentFL), LAMBDA v : ~isna(v))

\* line 167
par(ed) == IF Len(parents(ed)) > 0 THEN parents(ed)[1] ELSE NaN

\* line 168: the child selectbox is shown
ChildOffered(ed) == Truthy(par(ed)) /\ par(ed) \in DOMAIN PARENT_CHILD_MAP

ValChoices_default_child(ed, col_sel, typed) ==
    IF col_sel = ChildFL
    THEN IF ChildOffered(ed) THEN Range(PARENT_CHILD_MAP[par(ed)])
         ELSE Range(PARENT_CHILD_MAP[Str("P1")])
    ELSE IF col_sel \in DOMAIN DROPDOWN_VALUES THEN Range(DROPDOWN_VALUES[col_sel])
    ELSE typed

\* lines 165-176: the values the widget next to the column selector can hold;
\* typed is what the user may type into the text input
ValChoices(ed, col_sel, typed) ==
    IF col_sel = ChildFL
    THEN IF ChildOffered(ed) THEN Range(PARENT_CHILD_MAP[par(ed)]) ELSE {Str("")}
    ELSE IF col_sel \in DOMAIN DROPDOWN_VALUES THEN Range(DROPDOWN_VALUES[col_sel])
    ELSE typed

\* line 171: st.warning("Define primero 'Parent Functional Location'.")
Warned(ed, col_sel) == col_sel = ChildFL /\ ~ChildOffered(ed)

ApplyFill_any_value(ss, col_sel, val) ==
    [ss EXCEPT !.edited_df = SetColScalar(@, col_sel, val)]

\* lines 179-180
ApplyFill(ss, col_sel, val) ==
    IF Truthy(val)
    THEN [ss EXCEPT !.edited_df = SetColScalar(@, col_sel, val)]
    ELSE ss

incs_from_one(start_dt, n) == [i \in 1..n |-> start_dt + 27 * i]

\* line 193
incs(start_dt, n) == [i \in 1..n |-> start_dt + 27 * (i - 1)]

\* d.time().strftime("%H:%M:%S") of a datetime given in minutes
strftime(d) == [hms |-> <<(d \div 60) % 24, d % 60, 0>>]

RECURSIVE FillColumns_unconditional(_, _, _)
FillColumns_unconditional(t, cs, vals) ==
    IF cs = <<>> THEN t
    ELSE FillColumns_unconditional(SetCol(t, Head(cs), vals), Tail(cs), vals)

\* lines 204-209, one list of target columns
RECURSIVE FillColumns(_, _, _)
FillColumns(t, cs, vals) ==
    IF cs = <<>> THEN t
    ELSE FillColumns(IF Head(cs) \in Range(t.cols) THEN SetCol(t, Head(cs), vals) ELSE t,
                     Tail(cs), vals)

\* lines 192-209
GenerateSchedule(ss, start_dt) ==
    LET ds == incs(start_dt, Len(ss.edited_df.rows))
        t1 == FillColumns(ss.edited_df, full, [i \in DOMAIN ds |-> Ts(ds[i])])
        t2 == FillColumns(t1, time_only, [i \in DOMAIN ds |-> strftime(ds[i])])
    IN [ss EXCEPT !.edited_df = t2]

--------------------------------------------------------------------------
(* The session: uploads, edits in the data editor, and the four buttons *)

GeoOk ==
    [cols |-> <<Latitud, Longitud>>, rows |-> <<GeoRow(<<4, -15>>), GeoRow(<<6, -15>>)>>]
GeoOther ==
    [cols |-> <<Latitud, Longitud, ParentFL>>,
     rows |-> <<[c \in {Latitud, Longitud, ParentFL} |->
                   IF c = Latitud THEN Num(5) ELSE IF c = Longitud THEN Num(-14) ELSE Str("P2")]>>]
GeoBad == [cols |-> <<Latitud>>, rows |-> <<[c \in {Latitud} |-> Num(4)]>>]
CovOk ==
    [cols |-> <<Latitud, Longitud, RSSI>>, rows |-> <<CovRow(<<5, -15>>, Num(-65))>>]
CovBad ==
    [cols |-> <<Latitud, Longitud>>, rows |-> <<GeoRow(<<5, -15>>)>>]

SessionGeoFiles == {File(GeoOk), File(GeoOther), File(GeoBad)}
SessionCovFiles == {File(CovOk), File(CovBad)}

\* what the modelled user types: into the text input, into a cell (an emptied
\* cell is None), and into the date and time inputs (minutes; 08:00 and 23:50)
TextInputs == {Str(""), Str("P1")}
EditCols == {ParentFL}
EditValues == {NaN, Str("P1")}
StartTimes == {480, 1430}

Init ==
    /\ geo_file = NoFile
    /\ cov_file = NoFile
    /\ session_state = FreshSession
    /\ edited = EmptyDF
    /\ df_out = EmptyDF
    /\ _template_cols = TemplateColumns
    /\ event = [op |-> "start"]
    /\ nops = 0

\* the bound on the interactions that follow the processing of the upload
Count ==
    /\ "processed" \in session_state.keys => nops < MaxOps
    /\ nops' = IF "processed" \in session_state.keys THEN nops + 1 ELSE nops

UploadGeo ==
    \E f \in SessionGeoFiles :
        /\ Count
        /\ geo_file' = f
        /\ cov_file' = cov_file
        /\ Execute(f, cov_file, "upload")

UploadCov ==
    \E f \in SessionCovFiles :
        /\ Count
        /\ cov_file' = f
        /\ geo_file' = geo_file
        /\ Execute(geo_file, f, "upload")

Shown_always == TRUE

\* lines 135-137: the script gets as far as the data editor (no st.stop()
\* before it) and leaves the session as it is
Shown ==
    LET r == TopOfScript(session_state, geo_file, cov_file, _template_cols)
    IN ~r.stop /\ r.ss = session_state

\* an edit in the data editor: a cell, a new last row, a deleted row
EditCell ==
    \E i \in 1..Len(edited.rows), c \in EditCols \cap Range(edited.cols), v \in EditValues :
        /\ Shown /\ Count
        /\ edited' = [edited EXCEPT !.rows[i][c] = v]
        /\ event' = [op |-> "edit"]
        /\ UNCHANGED <<geo_file, cov_file, session_state, df_out, _template_cols>>

AddRow ==
    /\ Shown /\ Count
    /\ Len(edited.rows) < MaxRows
    /\ edited' = [edited EXCEPT !.rows = Append(@, [c \in Range(edited.cols) |-> NaN])]
    /\ event' = [op |-> "edit"]
    /\ UNCHANGED <<geo_file, cov_file, session_state, df_out, _template_cols>>

DeleteRow ==
    \E i \in 1..Len(edited.rows) :
        /\ Shown /\ Count
        /\ edited' = [edited EXCEPT
                        !.rows = [k \in 1..(Len(@) - 1) |-> IF k < i THEN @[k] ELSE @[k + 1]]]
        /\ event' = [op |-> "edit"]
        /\ UNCHANGED <<geo_file, cov_file, session_state, df_out, _template_cols>>

\* lines 155-157
Save ==
    /\ Shown /\ Count
    /\ session_state' = [session_state EXCEPT !.edited_df = edited]
    /\ event' = [op |-> "save"]
    /\ UNCHANGED <<geo_file, cov_file, edited, df_out, _template_cols>>

\* lines 161-182: the Apply button with a column selected and a value chosen
Apply ==
    \E col_sel \in Range(editable_cols(edited)) :
        \E val \in ValChoices(edited, col_sel, TextInputs) :
            /\ Shown /\ Count
            /\ session_state' = ApplyFill(session_state, col_sel, val)
            /\ edited' = data_editor(session_state, session_state', edited)
            /\ event' = [op |-> "apply", col |-> col_sel, val |-> val,
                         warning |-> Warned(edited, col_sel)]
            /\ UNCHANGED <<geo_file, cov_file, df_out, _template_cols>>

\* lines 186-211
Generate ==
    \E start_dt \in StartTimes :
        /\ Shown /\ Count
        /\ session_state' = GenerateSchedule(session_state, start_dt)
        /\ edited' = data_editor(session_state, session_state', edited)
        /\ event' = [op |-> "generate", start |-> start_dt]
        /\ UNCHANGED <<geo_file, cov_file, df_out, _template_cols>>

ExportStep_normalising(ss, ed, schema) ==
    LET t == ss.edited_df
        filled == [t EXCEPT !.rows = [i \in 1..Len(t.rows) |->
                        [c \in DOMAIN t.rows[i] |->
                            IF isna(t.rows[i][c]) THEN Str("") ELSE t.rows[i][c]]]]
    IN [ss |-> [ss EXCEPT !.edited_df = filled], out |-> Project(filled, schema)]

ExportStep_from_editor(ss, ed, schema) ==
    [ss |-> ss, out |-> Project(ed, schema)]

\* lines 216-220: df_out is a copy of the session's edited_df put onto the
\* template; `edited`, the editor's return value, is not read.
\* [ss: the session afterwards, out: df_out]
ExportStep(ss, ed, schema) ==
    [ss |-> ss, out |-> Project(ss.edited_df, schema)]

\* lines 53, 67: the configured required columns
REQUIRED_COLUMNS == {ParentFL}

\* lines 215-233: the (row, column) pairs that the export reports to the
\* user: it calls no st.warning and never reads REQUIRED_COLUMNS
ExportReport(out) == {}

\* lines 215-233
Export ==
    LET r == ExportStep(session_state, edited, _template_cols)
    IN /\ Shown /\ Count
       /\ session_state' = r.ss
       /\ df_out' = r.out
       /\ event' = [op |-> "export", reported |-> ExportReport(r.out)]
       /\ UNCHANGED <<geo_file, cov_file, edited, _template_cols>>

Next ==
    \/ UploadGeo
    \/ UploadCov
    \/ EditCell
    \/ AddRow
    \/ DeleteRow
    \/ Save
    \/ Apply
    \/ Generate
    \/ Export

Spec == Init /\ [][Next]_vars

--------------------------------------------------------------------------
(* The join on bounded tables: every installation table of 1..MaxGeoRows   *)
(* points and every coverage table of 0..MaxCovRows samples over a few     *)
(* coordinates, and one-sample tables over every reading of the range.     *)

\* (latitude, longitude): the first two round to the same key, the third
\* differs in the latitude key, the fourth in the longitude key
Points == {<<4, -15>>, <<5, -15>>, <<6, -15>>, <<4, -14>>}
Readings == {Num(-65), Num(-90)}
Dbms == {Num(v) : v \in (-200 - DbmMargin)..(-10 + DbmMargin)} \cup {NaN}

SeqsUpTo(S, lo, hi) == UNION {[1..k -> S] : k \in lo..hi}

GeoRows == {GeoRow(pt) : pt \in Points}

CovRows == {CovRow(pt, v) : pt \in Points, v \in Readings}

JoinGeoTables ==
    {[cols |-> <<Latitud, Longitud>>, rows |-> rs] : rs \in SeqsUpTo(GeoRows, 1, MaxGeoRows)}

JoinCovTables ==
    {[cols |-> <<Latitud, Longitud, RSSI>>, rows |-> rs] :
        rs \in SeqsUpTo(CovRows, 0, MaxCovRows)
               \cup {<<CovRow(<<4, -15>>, v)>> : v \in Dbms}}

InitJoin ==
    /\ geo_file \in {File(t) : t \in JoinGeoTables}
    /\ cov_file \in {File(t) : t \in JoinCovTables}
    /\ session_state = FreshSession
    /\ edited = EmptyDF
    /\ df_out = EmptyDF
    /\ _template_cols = TemplateColumns
    /\ event = [op |-> "start"]
    /\ nops = 0

SpecJoin == InitJoin /\ [][Rerun]_vars

--------------------------------------------------------------------------
(* Properties of the join *)

IsProcessed == "processed" \in session_state.keys

\* the rounded coordinate key of an uploaded row
KeyOf(row) == <<round10(row[Latitud].num), round10(row[Longitud].num)>>

GeoIdx == 1..Len(session_state.geo_df.rows)
CovIdx == 1..Len(session_state.cov_df.rows)
GeoKey(i) == KeyOf(session_state.geo_df.rows[i])
CovKey(j) == KeyOf(session_state.cov_df.rows[j])
Reading(j) == session_state.cov_df.rows[j][RSSI]
DbmOf(i) == session_state.df.rows[i]["dBm"]
GatewayOf(i) == session_state.df.rows[i]["Gateway"]

\* C1: the gateway classification of a record is YES iff its signal strength v
\* satisfies -70 <= v <= -10, NO iff -200 <= v < -70, and missing (UNKNOWN) in
\* every other case, an absent v included.
C1_Classification ==
    IsProcessed =>
        \A i \in 1..Len(session_state.df.rows) :
            LET v == DbmOf(i)
                g == GatewayOf(i)
                yes == ~isna(v) /\ -70 <= v.num /\ v.num <= -10
                no == ~isna(v) /\ -200 <= v.num /\ v.num < -70
            IN /\ (g = Str("YES")) <=> yes
               /\ (g = Str("NO")) <=> no
               /\ isna(g) <=> (~yes /\ ~no)

C1_Witness ==
    /\ IsProcessed
    /\ \E i \in 1..Len(session_state.df.rows) :
          DbmOf(i) = Num(-70) /\ GatewayOf(i) = Str("YES")

\* C2 as claimed: every installation point P and coverage point C with the
\* same rounded coordinates give P's record the reading of C.
C2_AnyMatchingSample ==
    IsProcessed =>
        \A i \in GeoIdx : \A j \in CovIdx :
            GeoKey(i) = CovKey(j) => DbmOf(i) = Reading(j)

\* C2 as amended: every installation point P and coverage point C with the
\* same rounded coordinates, C being followed in the coverage table by no
\* sample with these rounded coordinates, give P's record the reading of C.
C2_LastMatchingSample ==
    IsProcessed =>
        \A i \in GeoIdx : \A j \in CovIdx :
            (GeoKey(i) = CovKey(j) /\ \A j2 \in CovIdx : j2 > j => CovKey(j2) # CovKey(j))
                => DbmOf(i) = Reading(j)

C2_Witness ==
    /\ IsProcessed
    /\ \E i \in GeoIdx : \E j \in CovIdx :
          /\ j > 1
          /\ GeoKey(i) = CovKey(j) /\ CovKey(1) = CovKey(j)
          /\ session_state.geo_df.rows[i][Latitud] # session_state.cov_df.rows[j][Latitud]
          /\ Reading(1) # Reading(j)
          /\ DbmOf(i) = Reading(j)

\* C3: the join yields one record per installation point, in the input order;
\* a point whose key is the key of no coverage sample has no signal strength
\* and no classification, and a signal strength is always the reading of a
\* sample with the point's own key.
C3_OneRecordPerPoint ==
    IsProcessed =>
        /\ Len(session_state.df.rows) = Len(session_state.geo_df.rows)
        /\ \A i \in GeoIdx :
              /\ session_state.df.rows[i][LatFL] = session_state.geo_df.rows[i][Latitud]
              /\ session_state.df.rows[i][LonFL] = session_state.geo_df.rows[i][Longitud]
              /\ (\A j \in CovIdx : CovKey(j) # GeoKey(i))
                    => (isna(DbmOf(i)) /\ isna(GatewayOf(i)))
              /\ ~isna(DbmOf(i))
                    => \E j \in CovIdx : CovKey(j) = GeoKey(i) /\ Reading(j) = DbmOf(i)

C3_Witness ==
    /\ IsProcessed
    /\ Len(session_state.df.rows) = 2
    /\ GeoKey(1) # GeoKey(2)
    /\ session_state.cov_df.rows # <<>>
    /\ \A j \in CovIdx : CovKey(j) # GeoKey(1) /\ CovKey(j)[1] = GeoKey(1)[1]
    /\ \E j \in CovIdx : CovKey(j) = GeoKey(2)
    /\ isna(DbmOf(1)) /\ isna(GatewayOf(1)) /\ ~isna(DbmOf(2))

--------------------------------------------------------------------------
(* Properties of the bulk fill *)

WorkingTable == session_state.edited_df

NoParentValue(ed) == \A i \in 1..Len(ed.rows) : ~Truthy(ed.rows[i][ParentFL])

\* C4: a bulk fill never targets a protected column (none is offered), and a
\* step of the bulk fill leaves every cell of every protected column of the
\* working table as it was.
C4_ProtectedUntouched ==
    [][event'.op = "apply" =>
        /\ event'.col \notin PROTECTED_COLUMNS
        /\ \A c \in PROTECTED_COLUMNS \cap Range(WorkingTable.cols) :
              /\ c \in Range(WorkingTable'.cols)
              /\ Column(WorkingTable', c) = Column(WorkingTable, c)]_vars

C4_Witness ==
    /\ event.op = "apply"
    /\ Truthy(event.val)
    /\ Len(WorkingTable.rows) >= 2
    /\ \A i \in 1..Len(WorkingTable.rows) : WorkingTable.rows[i][event.col] = event.val
    /\ PROTECTED_COLUMNS \cap Range(WorkingTable.cols) # {}
    /\ \A c \in PROTECTED_COLUMNS \cap Range(WorkingTable.cols) :
          \A i \in 1..Len(WorkingTable.rows) : WorkingTable.rows[i][c] = session_state.df.rows[i][c]

\* the fill of column c with value v took t to t2: every row holds v in c, and
\* the columns, the rows and every other cell are those of t
Filled(t, t2, c, v) ==
    /\ t2.cols = t.cols
    /\ Len(t2.rows) = Len(t.rows)
    /\ \A i \in 1..Len(t.rows) :
          \A k \in Range(t.cols) : t2.rows[i][k] = IF k = c THEN v ELSE t.rows[i][k]

\* C5 as claimed: a bulk fill of a non-protected column with any value, the
\* empty string included, leaves every row holding the value in that column
\* and everything else unchanged.
C5_FillAnyValue ==
    [][event'.op = "apply" =>
        Filled(WorkingTable, WorkingTable', event'.col, event'.val)]_vars

\* C5 as amended: a bulk fill of a non-protected column with a non-empty value
\* leaves every row holding the value in that column, and every other column
\* and the number and order of the rows unchanged; a bulk fill with the empty
\* string changes nothing.
C5_FillNonEmptyValue ==
    [][event'.op = "apply" =>
        /\ event'.col \notin PROTECTED_COLUMNS
        /\ Truthy(event'.val)
              => Filled(WorkingTable, WorkingTable', event'.col, event'.val)
        /\ event'.val = Str("") => WorkingTable' = WorkingTable]_vars

C5_Witness ==
    /\ event.op = "apply"
    /\ event.col = ParentFL
    /\ event.val = Str("P1")
    /\ Len(WorkingTable.rows) >= 2
    /\ \A i \in 1..Len(WorkingTable.rows) :
          /\ WorkingTable.rows[i][ParentFL] = Str("P1")
          /\ WorkingTable.rows[i][WorkOrderType] = Str("Repair")

\* C6: a bulk fill of the child-location column while no row of the edited
\* table holds a non-empty parent location is refused with the warning and
\* leaves the working table (the whole session) unchanged.
C6_ChildNeedsParent ==
    [][(event'.op = "apply" /\ event'.col = ChildFL /\ NoParentValue(edited)) =>
        /\ event'.warning
        /\ session_state' = session_state]_vars

C6_Witness ==
    /\ event.op = "apply"
    /\ event.col = ChildFL
    /\ event.warning
    /\ NoParentValue(edited)
    /\ NoParentValue(WorkingTable)
    /\ \E i \in 1..Len(WorkingTable.rows) : Truthy(WorkingTable.rows[i][ChildFL])

--------------------------------------------------------------------------
(* Projection: installation tables with other columns, in other orders,    *)
(* and every template of up to MaxSchemaLen columns.                       *)

Notes == "Notes"

ProjGeoCols ==
    { <<Latitud, Longitud>>,
      <<Latitud, Longitud, ParentFL>>,
      <<ParentFL, Longitud, Latitud>>,
      <<Notes, Latitud, Longitud, PromisedFrom>> }

ProjCell(c, k, pv) ==
    IF c = Latitud THEN Num(4 + k)
    ELSE IF c = Longitud THEN Num(-15)
    ELSE IF c = ParentFL THEN pv[k]
    ELSE Str("n")

ProjGeoTables ==
    {[cols |-> cs, rows |-> [k \in 1..n |-> [c \in Range(cs) |-> ProjCell(c, k, pv)]]] :
        cs \in ProjGeoCols, n \in 1..MaxGeoRows,
        pv \in [1..MaxGeoRows -> {Str("P1"), NaN}]}

SchemaUniverse == {LatFL, ParentFL, WorkOrderType, PromisedFrom, "dBm"}

Schemas ==
    {sc \in SeqsUpTo(SchemaUniverse, 0, MaxSchemaLen) :
        \A i, j \in DOMAIN sc : i # j => sc[i] # sc[j]}

InitProject ==
    /\ geo_file \in {File(t) : t \in ProjGeoTables}
    /\ cov_file = File(CovOk)
    /\ session_state = FreshSession
    /\ edited = EmptyDF
    /\ df_out = EmptyDF
    /\ _template_cols \in Schemas
    /\ event = [op |-> "start"]
    /\ nops = 0

NextProject ==
    \/ Rerun
    \/ Export

SpecProject == InitProject /\ [][NextProject]_vars

\* t is table src put onto the schema: the schema's columns in the schema's
\* order, the rows of src, a cell of src where src has the column and the
\* empty string where it has not
OnSchema(t, src, schema) ==
    /\ t.cols = schema
    /\ Len(t.rows) = Len(src.rows)
    /\ \A i \in 1..Len(t.rows) :
          /\ DOMAIN t.rows[i] = Range(schema)
          /\ \A c \in Range(schema) :
                t.rows[i][c] = IF c \in Range(src.cols) THEN src.rows[i][c] ELSE Str("")

\* C7: projection is total and idempotent: whatever the columns of the join
\* output, the seeded table has exactly the template's columns in the
\* template's order (empty string for a column the table lacked, the other
\* columns dropped), and the export, which projects that table again onto the
\* same template, yields the same table.
C7_ProjectionTotalIdempotent ==
    /\ "edited_df" \in session_state.keys
          => OnSchema(WorkingTable, session_state.df, _template_cols)
    /\ event.op = "export" => df_out = WorkingTable

C7_Witness ==
    /\ event.op = "export"
    /\ df_out = WorkingTable
    /\ Len(df_out.rows) = 2
    /\ df_out.cols = <<PromisedFrom, ParentFL, LatFL>>
    /\ ParentFL \in Range(session_state.df.cols)
    /\ PromisedFrom \notin Range(session_state.df.cols)
    /\ df_out.rows[1][PromisedFrom] = Str("")
    /\ df_out.rows[2][ParentFL] = Str("P1")

--------------------------------------------------------------------------
(* Properties of the session *)

JustProcessed == event.op = "upload" /\ event.msg = Processed

\* C8: an export that directly follows the seeding of the working table from
\* the N join-output records has N rows, in the same order, and holds the
\* record's value in every column that the record and the template share.
C8_SeedExportRoundTrip ==
    [][(JustProcessed /\ event'.op = "export") =>
        /\ Len(df_out'.rows) = Len(session_state.df.rows)
        /\ \A i \in 1..Len(session_state.df.rows) :
              \A c \in Range(session_state.df.cols) \cap Range(_template_cols) :
                  df_out'.rows[i][c] = session_state.df.rows[i][c]]_vars

C8_Witness ==
    /\ event.op = "export"
    /\ nops = 1
    /\ Len(df_out.rows) = 2
    /\ df_out.rows[1][LatFL] = Num(4)
    /\ df_out.rows[2][LatFL] = Num(6)
    /\ df_out.rows[2][WorkOrderType] = Str("Installation")

\* C9: schedule generation gives row i (0-based, over all rows of the working
\* table) the timestamp start + i * 27 minutes: consecutive rows differ by 27
\* minutes, the sequence is strictly increasing, and 08:00 with three rows
\* gives 08:00, 08:27, 08:54.
C9_ScheduleTimestamps ==
    [][event'.op = "generate" =>
        LET t == WorkingTable'
            n == Len(WorkingTable.rows)
            at(i) == t.rows[i][PromisedFrom].ts
        IN /\ Len(t.rows) = n
           /\ \A i \in 1..n : at(i) = event'.start + (i - 1) * 27
           /\ \A i \in 2..n : at(i) - at(i - 1) = 27 /\ at(i) > at(i - 1)
           /\ (event'.start = 480 /\ n = 3)
                 => Column(t, PromisedFrom) = <<Ts(480), Ts(507), Ts(534)>>]_vars

C9_Witness ==
    /\ event.op = "generate"
    /\ event.start = 480
    /\ Column(WorkingTable, PromisedFrom) = <<Ts(480), Ts(507), Ts(534)>>

\* C10: an upload rejected for a missing column leaves the session exactly as
\* it was before the upload.
C10_RejectedUploadLeavesSession ==
    [][(event'.op = "upload" /\ event'.msg \in {GeoError, CovError}) =>
        session_state' = session_state]_vars

--------------------------------------------------------------------------
(* Properties of the two phases of the session *)

Ops == {"save", "apply", "generate", "export"}

\* C11: the session is Unseeded until `processed` is set and Seeded from then
\* on. A step that starts and ends Unseeded is no save, bulk fill, schedule
\* generation or export and leaves the working table and the exported table
\* as they were; the step that makes the session Seeded is an upload with
\* both tables holding their required columns, and it stores the coverage
\* table and the output of the join; a Seeded session stays Seeded.
C11_TwoPhases ==
    [][/\ ~IsProcessed =>
            /\ event'.op \notin Ops
            /\ "edited_df" \notin session_state.keys
            /\ ~IsProcessed' => (WorkingTable' = WorkingTable /\ df_out' = df_out)
       /\ (~IsProcessed /\ IsProcessed') =>
            /\ event'.op = "upload" /\ event'.msg = Processed
            /\ geo_file'.present /\ cov_file'.present
            /\ {Latitud, Longitud} \subseteq Range(geo_file'.data.cols)
            /\ {Latitud, Longitud, RSSI} \subseteq Range(cov_file'.data.cols)
            /\ session_state'.geo_df = geo_file'.data
            /\ session_state'.cov_df = cov_file'.data
            /\ session_state'.df = JoinClassify(Prepare(geo_file'.data), cov_file'.data)
       /\ IsProcessed => IsProcessed']_vars

\* a Seeded session whose last step was the upload of an installation table
\* without its columns, after an upload rejected while Unseeded
C11_Witness ==
    /\ IsProcessed
    /\ event.op = "upload"
    /\ nops > 0
    /\ geo_file = File(GeoBad)
    /\ session_state.geo_df = GeoOk

--------------------------------------------------------------------------
(* Properties of the working table *)

\* every row of t has a cell for each column of the schema and for nothing
\* else, and the columns of t are the schema's in the schema's order
HasSchema(t, schema) ==
    /\ t.cols = schema
    /\ \A i \in 1..Len(t.rows) : DOMAIN t.rows[i] = Range(schema)

\* C12 as claimed: in every Seeded state the working table has the schema's
\* columns in the schema's order, every row has a cell for every column, and
\* a cell with no value holds the empty string: no cell holds a missing value.
C12_SchemaWithEmptyStrings ==
    IsProcessed =>
        /\ HasSchema(WorkingTable, _template_cols)
        /\ \A i \in 1..Len(WorkingTable.rows) :
              \A c \in Range(_template_cols) : ~isna(WorkingTable.rows[i][c])

\* C12 as amended: in every Seeded state, after any saves, bulk fills and
\* schedule generations, the working table has the schema's columns in the
\* schema's order and every row has a cell for every column; a cell with no
\* value holds the empty string or a missing value, never lacks its column.
C12_SchemaColumnsPresent ==
    IsProcessed => HasSchema(WorkingTable, _template_cols)

\* a row added in the editor was saved and the schedule then generated: the
\* row has its cells, one of them without a value
C12_Witness ==
    /\ IsProcessed
    /\ event.op = "generate"
    /\ Len(WorkingTable.rows) = 3
    /\ isna(WorkingTable.rows[3][ParentFL])
    /\ WorkingTable.rows[1][ParentFL] = Str("")
    /\ WorkingTable.rows[3][PromisedFrom] = Ts(event.start + 54)

--------------------------------------------------------------------------
(* Properties of the export *)

\* C13: an export leaves the session, the working table included, and the
\* editor's table as they were, and an export that directly follows an export
\* yields the same table.
C13_ExportPure ==
    [][event'.op = "export" =>
        /\ session_state' = session_state
        /\ WorkingTable' = WorkingTable
        /\ edited' = edited
        /\ event.op = "export" => df_out' = df_out]_vars

\* an export of a saved table of three rows, one of them added in the editor
C13_Witness ==
    /\ event.op = "export"
    /\ df_out = WorkingTable
    /\ Len(df_out.rows) = 3
    /\ isna(WorkingTable.rows[3][ParentFL])
    /\ WorkingTable.rows[1][LatFL] = Num(4)

\* the (row, column) pairs of t with an empty value in a required column
EmptyRequired(t) ==
    {<<i, c>> \in (1..Len(t.rows)) \X (REQUIRED_COLUMNS \cap Range(t.cols)) :
        ~Truthy(t.rows[i][c])}

\* C14: an empty value in a required column blocks no operation: a save
\* stores the editor's table and an export yields the working table on the
\* schema whatever the required cells hold; and the export reports exactly
\* the rows and columns that hold an empty required value.
C14_RequiredReportedAtExport ==
    [][/\ event'.op = "save" => WorkingTable' = edited
       /\ event'.op = "export" =>
            /\ OnSchema(df_out', WorkingTable, _template_cols)
            /\ event'.reported = EmptyRequired(df_out')]_vars

--------------------------------------------------------------------------
(* Properties of the conditional fill *)

\* the values of the parent column that are neither missing nor the empty
\* string, in row order
NonEmptyParents(ed) ==
    SelectSeq(Column(ed, ParentFL), LAMBDA v : ~isna(v) /\ v # Str(""))

\* C15: the parent of a fill of the child column is the first non-empty
\* value of the parent column in row order: whenever some row holds a
\* non-empty parent and the first of them, p, is a key of the parent-child
\* map, whatever empty values earlier rows hold, the fill is allowed, the
\* values offered are exactly those of the map at p, and the value chosen is
\* written to the child column of every row.
C15_FirstNonEmptyParent ==
    [][(/\ event'.op = "apply" /\ event'.col = ChildFL
        /\ NonEmptyParents(edited) # <<>>
        /\ NonEmptyParents(edited)[1] \in DOMAIN PARENT_CHILD_MAP) =>
            LET p == NonEmptyParents(edited)[1]
            IN /\ ~event'.warning
               /\ ValChoices(edited, ChildFL, TextInputs) = Range(PARENT_CHILD_MAP[p])
               /\ event'.val \in Range(PARENT_CHILD_MAP[p])
               /\ \A i \in 1..Len(WorkingTable'.rows) :
                     WorkingTable'.rows[i][ChildFL] = event'.val]_vars

--------------------------------------------------------------------------
(* Properties of the schedule generation *)

\* the time of day of a minute count, as hours, minutes and seconds
TimeOfDay(m) == [hms |-> <<(m % 1440) \div 60, m % 60, 0>>]

\* C16: a schedule generation leaves the columns and the number of rows of
\* the working table as they were (a target column that the table lacks is
\* not added), gives row i its timestamp in every full-timestamp column that
\* exists and its time of day in every time-only column that exists, whatever
\* these cells held, and leaves every other cell as it was; a generation that
\* directly follows a generation with the same start changes nothing.
C16_ScheduleFrame ==
    [][event'.op = "generate" =>
        LET t == WorkingTable
            t2 == WorkingTable'
            at(i) == event'.start + 27 * (i - 1)
        IN /\ t2.cols = t.cols
           /\ Len(t2.rows) = Len(t.rows)
           /\ \A i \in 1..Len(t.rows) :
                 /\ DOMAIN t2.rows[i] = DOMAIN t.rows[i]
                 /\ \A c \in Range(t.cols) :
                       t2.rows[i][c] =
                          IF c \in Range(full) THEN Ts(at(i))
                          ELSE IF c \in Range(time_only) THEN TimeOfDay(at(i))
                          ELSE t.rows[i][c]
           /\ (event.op = "generate" /\ event.start = event'.start) => t2 = t]_vars

\* a second generation, past midnight on the second row, over a table whose
\* parent column had been filled
C16_Witness ==
    /\ event.op = "generate"
    /\ event.start = 1430
    /\ nops >= 3
    /\ Len(WorkingTable.rows) = 2
    /\ WorkingTable.rows[2][PromisedFrom] = Ts(1457)
    /\ WorkingTable.rows[2][EndTime] = Ts(1457)
    /\ WorkingTable.rows[2][TimeFrom] = [hms |-> <<0, 17, 0>>]
    /\ WorkingTable.rows[2][ParentFL] = Str("P1")
    /\ Range(full) \ Range(WorkingTable.cols) # {}

--------------------------------------------------------------------------
(* Properties of coverage samples that share a key *)

\* the rows of the coverage table whose rounded key is that of point i
SamplesAt(i) == {j \in CovIdx : CovKey(j) = GeoKey(i)}

\* C17: of several coverage samples with one rounded key the last in the
\* order of the table wins: every installation point with that key has the
\* reading of the sample of greatest row index, and no point has a reading
\* that only an earlier sample holds.
C17_LastWriteWins ==
    IsProcessed =>
        \A i \in GeoIdx :
            SamplesAt(i) # {} =>
                LET last == CHOOSE j \in SamplesAt(i) : \A k \in SamplesAt(i) : k <= j
                IN /\ DbmOf(i) = Reading(last)
                   /\ \A j \in SamplesAt(i) :
                         Reading(j) # Reading(last) => DbmOf(i) # Reading(j)

\* two installation points and two samples, all of one key, the samples with
\* different readings: both points have the second sample's reading
C17_Witness ==
    /\ IsProcessed
    /\ Len(session_state.df.rows) = 2
    /\ Len(session_state.cov_df.rows) = 2
    /\ GeoKey(1) = GeoKey(2)
    /\ session_state.geo_df.rows[1] # session_state.geo_df.rows[2]
    /\ SamplesAt(1) = {1, 2}
    /\ Reading(1) # Reading(2)
    /\ DbmOf(1) = Reading(2) /\ DbmOf(2) = Reading(2)

--------------------------------------------------------------------------
(* Properties of edits that are pending in the editor *)

\* t2 is t but for the cells of the columns in S
SameOutside(t, t2, S) ==
    /\ t2.cols = t.cols
    /\ Len(t2.rows) = Len(t.rows)
    /\ \A i \in 1..Len(t.rows) :
          \A c \in Range(t.cols) \ S : t2.rows[i][c] = t.rows[i][c]

\* C18: an edit in the editor changes neither the session nor the exported
\* table; a save makes the editor's table the working table; whatever is
\* pending in the editor, an export yields the saved working table on the
\* schema, a schedule generation keeps the saved table's rows and the cells
\* outside its target columns, and a bulk fill leaves the saved table as it
\* was or as it was but for the filled column.
C18_SavedTableOnly ==
    [][/\ event'.op = "edit" => (session_state' = session_state /\ df_out' = df_out)
       /\ event'.op = "save" => WorkingTable' = edited
       /\ event'.op = "export" => OnSchema(df_out', WorkingTable, _template_cols)
       /\ event'.op = "generate" =>
             SameOutside(WorkingTable, WorkingTable', Range(full) \cup Range(time_only))
       /\ event'.op = "apply" =>
             /\ SameOutside(WorkingTable, WorkingTable', {event'.col})
             /\ \/ WorkingTable' = WorkingTable
                \/ \A i \in 1..Len(WorkingTable.rows) :
                      WorkingTable'.rows[i][event'.col] = event'.val]_vars

\* an export while a new row and a parent value are pending in the editor:
\* the exported table has neither
C18_Witness ==
    /\ event.op = "export"
    /\ Len(edited.rows) = 3
    /\ edited.rows[1][ParentFL] = Str("P1")
    /\ Len(WorkingTable.rows) = 2
    /\ Len(df_out.rows) = 2
    /\ df_out.rows[1][ParentFL] = Str("")

--------------------------------------------------------------------------
(* Properties of the seeding *)

\* C19: a step of a Seeded session leaves the stored installation table, the
\* stored join output and the stored coverage table as they were, whatever
\* file is uploaded; an upload leaves the whole session, the working table
\* included, as it was; and the working table changes in no step but a save,
\* a bulk fill or a schedule generation.
C19_SeededOnce ==
    [][IsProcessed =>
        /\ session_state'.df = session_state.df
        /\ session_state'.cov_df = session_state.cov_df
        /\ session_state'.geo_df = session_state.geo_df
        /\ event'.op = "upload" => session_state' = session_state
        /\ WorkingTable' # WorkingTable => event'.op \in {"save", "apply", "generate"}]_vars

\* a Seeded session with a filled working table, after the upload of another
\* valid installation table next to a valid coverage table
C19_Witness ==
    /\ IsProcessed
    /\ event.op = "upload"
    /\ geo_file = File(GeoOther)
    /\ cov_file = File(CovOk)
    /\ session_state.geo_df = GeoOk
    /\ Len(session_state.df.rows) = 2
    /\ WorkingTable.rows[1][ParentFL] = Str("P1")

====
